---- MODULE Spec2Model ----
(***************************************************************************)
(* Cross-venue edge calculator and alert-state engine of src/main.py.      *)
(*                                                                         *)
(* Units.  Prices are integers (ticks).  Fees and slippage are integer     *)
(* basis points.  Thresholds and levels are integers in hundredths of a    *)
(* percent (10 stands for 0.10 percent).  A net edge in percent is an      *)
(* exact fraction [n, d] in lowest terms with d > 0; fractions are         *)
(* compared by cross multiplication.  Time is in seconds.                  *)
(***************************************************************************)
EXTENDS Integers, Sequences, FiniteSets, TLC

VARIABLES
    PAUSED,             \* main.py:202
    ASSETS,             \* main.py:50   list of tickers
    THRESHOLD_PCT,      \* main.py:24   global single threshold
    THRESHOLD_PER_PAIR, \* main.py:37   dict asset -> threshold
    THRESHOLD_LEVELS,   \* main.py:29   ascending list, <<>> = single mode
    LAST_ALERT_TS,      \* main.py:198  dict asset -> time of last sent alert
    LAST_LEVEL_IDX,     \* main.py:200  dict asset -> last level index
    clock,              \* time.time()
    nextTick,           \* next run of the repeating job (main.py:375)
    tasks,              \* the check_and_alert tasks created by the job
    alerts,             \* history: the recent send_message calls of check_and_alert
    evalLog,            \* observation: the policy evaluations of the last step
    lastTick,           \* observation: how the tick that ended in the last step ended
    lastFetch,          \* observation: the venue fetch that completed in the last step
    lastSend,           \* observation: the send_message that completed in the last step
    calc,               \* input and output of the pure edge calculator
    BOT_TOKEN,          \* main.py:19   TRUE when the setting is not empty
    CHAT_ID,            \* main.py:20   TRUE when the setting is not empty
    proc,               \* position of main(): "start", "polling" or "exit"
    reply               \* observation: the reply_text of the command of the last step

vars == <<PAUSED, ASSETS, THRESHOLD_PCT, THRESHOLD_PER_PAIR, THRESHOLD_LEVELS,
          LAST_ALERT_TS, LAST_LEVEL_IDX, clock, nextTick, tasks, alerts,
          evalLog, lastTick, lastFetch, lastSend, calc, BOT_TOKEN, CHAT_ID, proc,
          reply>>

botVars == <<PAUSED, ASSETS, THRESHOLD_PCT, THRESHOLD_PER_PAIR, THRESHOLD_LEVELS,
             LAST_ALERT_TS, LAST_LEVEL_IDX, clock, nextTick, tasks, alerts,
             evalLog, lastTick, lastFetch, lastSend, BOT_TOKEN, CHAT_ID, proc,
             reply>>

envVars == <<BOT_TOKEN, CHAT_ID, proc>>

(***************************************************************************)
(* Program constants                                                       *)
(***************************************************************************)
POLL_SECONDS == 60
ALERT_COOLDOWN == 120
FEE_BPS_LIG_OPEN == 0
FEE_BPS_LIG_CLOSE == 0
FEE_BPS_EXT_OPEN == 22
FEE_BPS_EXT_CLOSE == 22
SLIPPAGE_BPS_PER_LEG == 5
DEFAULT_THRESHOLD_PCT == 10
LIGHTER_ENABLED == TRUE
EXT_MARKETS == {"BTC", "ETH", "SOL"}
LIGHTER_MARKETS == {"BTC", "ETH", "SOL"}

(***************************************************************************)
(* Bounds of the model                                                     *)
(***************************************************************************)
StartTime == 1000
MaxTicks == 3
MaxTasks == 2
PriceLo == 99
PriceHi == 101

MaxTime == StartTime + (MaxTicks - 1) * POLL_SECONDS
Tasks == 1..MaxTasks

(***************************************************************************)
(* Values                                                                  *)
(***************************************************************************)
None == [kind |-> "none", bid |-> 0, ask |-> 0]
Raised == [kind |-> "raise", bid |-> 0, ask |-> 0]
TopOfBook(b, a) == [kind |-> "tob", bid |-> b, ask |-> a]
VenueQuotes(e, l) == [extended |-> e, lighter |-> l]

\* fractions are kept in lowest terms
RECURSIVE GCD(_, _)
GCD(a, b) == IF b = 0 THEN a ELSE GCD(b, a % b)
Abs(x) == IF x < 0 THEN -x ELSE x
Rat(n, d) == LET g == GCD(Abs(n), d) IN [n |-> n \div g, d |-> d \div g]
RatGE(x, y) == x.n * y.d >= y.n * x.d
RatEQ(x, y) == x.n * y.d = y.n * x.d
\* float("nan") as a threshold or level; every comparison with it is false
NaN == 1000000
FloatLT(a, b) == a # NaN /\ b # NaN /\ a < b
\* fraction x (percent) >= h hundredths of a percent
PctGE(x, h) == h # NaN /\ x.n * 100 >= h * x.d

Fees(eo, ec, lo, lc, s) ==
    [ext_open |-> eo, ext_close |-> ec, lig_open |-> lo, lig_close |-> lc, slip |-> s]
FEES == Fees(FEE_BPS_EXT_OPEN, FEE_BPS_EXT_CLOSE, FEE_BPS_LIG_OPEN, FEE_BPS_LIG_CLOSE,
             SLIPPAGE_BPS_PER_LEG)

(***************************************************************************)
(* Wire responses of the venues.  A price level is a keyed record          *)
(* ("dict", with or without a price field) or a positional tuple ("list",  *)
(* price standing for its element at index 0).                             *)
(***************************************************************************)
NoPrice == [has |-> FALSE, val |-> 0]
Price(p) == [has |-> TRUE, val |-> p]
Keyed(p) == [shape |-> "dict", price |-> Price(p)]
KeyedNoPrice == [shape |-> "dict", price |-> NoPrice]
Positional(p) == [shape |-> "list", price |-> Price(p)]
Timeout == [kind |-> "timeout", bid |-> <<>>, ask |-> <<>>]
HttpError == [kind |-> "status", bid |-> <<>>, ask |-> <<>>]
Body(bids, asks) == [kind |-> "ok", bid |-> bids, ask |-> asks]

(***************************************************************************)
(* VenueAdapter: fetch_extended_tob, fetch_lighter_tob.  The result is a   *)
(* TopOfBook, None, or Raised when the exception leaves the function.      *)
(***************************************************************************)
\* float(b0.get("price", ...)) of main.py:111-112
ExtLevelRaises(l) == l.shape = "list" \/ ~l.price.has

fetch_extended_tob(asset, resp) ==
    IF asset \notin EXT_MARKETS THEN None
    ELSE IF resp.kind = "timeout" THEN Raised
    ELSE IF resp.kind = "status" THEN Raised
    ELSE IF resp.bid = <<>> \/ resp.ask = <<>> THEN None
    ELSE IF ExtLevelRaises(resp.bid[1]) \/ ExtLevelRaises(resp.ask[1]) THEN Raised
    ELSE TopOfBook(resp.bid[1].price.val, resp.ask[1].price.val)

\* float(b0[0] if isinstance(b0, list) else b0.get("price")) of main.py:153-154
LigLevelRaises(l) == l.shape = "dict" /\ ~l.price.has

fetch_lighter_tob(asset, resp) ==
    IF ~LIGHTER_ENABLED THEN None
    ELSE IF asset \notin LIGHTER_MARKETS THEN None
    ELSE IF resp.kind = "timeout" THEN None
    ELSE IF resp.kind = "status" THEN None
    ELSE IF resp.bid = <<>> \/ resp.ask = <<>> THEN None
    ELSE IF LigLevelRaises(resp.bid[1]) \/ LigLevelRaises(resp.ask[1]) THEN None
    ELSE TopOfBook(resp.bid[1].price.val, resp.ask[1].price.val)

\* whether the fetch reaches its await client.get(...)
ExtAwaits(asset) == asset \in EXT_MARKETS
LigAwaits(asset) == LIGHTER_ENABLED /\ asset \in LIGHTER_MARKETS

(***************************************************************************)
(* EdgeCalculator: _roundtrip_bps, best_net_edge                           *)
(***************************************************************************)
\* _roundtrip_bps that leaves the entry venue's close fee out of "LIG->EXT"
roundtrip_bps_OneWay(direction, fee) ==
    LET fee_bps == IF direction = "EXT->LIG"
                   THEN fee.ext_open + fee.lig_open + fee.ext_close + fee.lig_close
                   ELSE fee.lig_open + fee.ext_open + fee.ext_close
        slip_bps == 4 * fee.slip
    IN  fee_bps + slip_bps

\* _roundtrip_bps with the slippage of two legs instead of four
roundtrip_bps_TwoLegs(direction, fee) ==
    LET fee_bps == IF direction = "EXT->LIG"
                   THEN fee.ext_open + fee.lig_open + fee.ext_close + fee.lig_close
                   ELSE fee.lig_open + fee.ext_open + fee.lig_close + fee.ext_close
        slip_bps == 2 * fee.slip
    IN  fee_bps + slip_bps

roundtrip_bps(direction, fee) ==
    LET fee_bps == IF direction = "EXT->LIG"
                   THEN fee.ext_open + fee.lig_open + fee.ext_close + fee.lig_close
                   ELSE fee.lig_open + fee.ext_open + fee.lig_close + fee.ext_close
        slip_bps == 4 * fee.slip
    IN  fee_bps + slip_bps

\* NetPct that leaves the round-trip cost out: the gross spread in percent
NetPct_GrossOnly(sell, buy, bps) == Rat((sell - buy) * 10000, buy * 100)

\* net * 100 for gross (sell - buy) / buy and a cost in bps, as a fraction:
\* ((sell - buy)/buy - bps/10000) * 100
NetPct(sell, buy, bps) == Rat((sell - buy) * 10000 - bps * buy, buy * 100)

\* best_net_edge with "net1 > net2" for "net1 >= net2" at main.py:190
best_net_edge_StrictTie(quotes, fee) ==
    LET ext == quotes.extended
        lig == quotes.lighter
    IN  IF ext.kind # "tob" \/ lig.kind # "tob"
        THEN [pct |-> Rat(0, 1), direction |-> "N/A"]
        ELSE LET net1 == NetPct(lig.bid, ext.ask, roundtrip_bps("EXT->LIG", fee))
                 net2 == NetPct(ext.bid, lig.ask, roundtrip_bps("LIG->EXT", fee))
             IN  IF RatGE(net1, net2) /\ ~RatEQ(net1, net2)
                 THEN [pct |-> net1, direction |-> "EXT->LIG"]
                 ELSE [pct |-> net2, direction |-> "LIG->EXT"]

\* best_net_edge that tests only the Extended quote at main.py:182 and goes on
\* with an empty Lighter book priced like the Extended one
best_net_edge_ExtOnly(quotes, fee) ==
    LET ext == quotes.extended
        lig == IF quotes.lighter.kind = "tob" THEN quotes.lighter ELSE quotes.extended
    IN  IF ext.kind # "tob"
        THEN [pct |-> Rat(0, 1), direction |-> "N/A"]
        ELSE LET net1 == NetPct(lig.bid, ext.ask, roundtrip_bps("EXT->LIG", fee))
                 net2 == NetPct(ext.bid, lig.ask, roundtrip_bps("LIG->EXT", fee))
             IN  IF RatGE(net1, net2)
                 THEN [pct |-> net1, direction |-> "EXT->LIG"]
                 ELSE [pct |-> net2, direction |-> "LIG->EXT"]

best_net_edge(quotes, fee) ==
    LET ext == quotes.extended
        lig == quotes.lighter
    IN  IF ext.kind # "tob" \/ lig.kind # "tob"
        THEN [pct |-> Rat(0, 1), direction |-> "N/A"]
        ELSE LET net1 == NetPct(lig.bid, ext.ask, roundtrip_bps("EXT->LIG", fee))
                 net2 == NetPct(ext.bid, lig.ask, roundtrip_bps("LIG->EXT", fee))
             IN  IF RatGE(net1, net2)
                 THEN [pct |-> net1, direction |-> "EXT->LIG"]
                 ELSE [pct |-> net2, direction |-> "LIG->EXT"]

(***************************************************************************)
(* Dicts (LAST_ALERT_TS, LAST_LEVEL_IDX, THRESHOLD_PER_PAIR) are functions *)
(* whose domain is the set of keys present.                                *)
(***************************************************************************)
EmptyDict == [a \in {} |-> 0]
Get(d, k, default) == IF k \in DOMAIN d THEN d[k] ELSE default
Put(d, k, v) == [a \in DOMAIN d \cup {k} |-> IF a = k THEN v ELSE d[a]]

(***************************************************************************)
(* AlertPolicy: the firing decision of check_and_alert                     *)
(***************************************************************************)
min_threshold_for(asset) ==
    IF THRESHOLD_LEVELS # <<>> THEN THRESHOLD_LEVELS[1]
    ELSE Get(THRESHOLD_PER_PAIR, asset, THRESHOLD_PCT)

\* main.py:230-233: the last index i (0-based) with pct >= levels[i], else -1
HighestLevel(pct, levels) ==
    LET hit == {i \in 1..Len(levels) : PctGE(pct, levels[i])}
    IN  IF hit = {} THEN -1 ELSE (CHOOSE i \in hit : \A k \in hit : k <= i) - 1

\* Decide with "idx >= prev" for "idx > prev" at main.py:237
Decide_SameLevelRefires(asset, pct, now, ts, li) ==
    IF THRESHOLD_LEVELS # <<>>
    THEN LET idx == HighestLevel(pct, THRESHOLD_LEVELS)
             prev == Get(li, asset, -1)
         IN  [trigger |-> idx >= 0 /\ (idx >= prev \/ now - Get(ts, asset, 0) >= ALERT_COOLDOWN),
              leveled |-> TRUE, idx |-> idx]
    ELSE [trigger |-> PctGE(pct, min_threshold_for(asset))
                      /\ now - Get(ts, asset, 0) >= ALERT_COOLDOWN,
          leveled |-> FALSE, idx |-> -1]

\* main.py:224-244 for one row, reading LAST_ALERT_TS as ts and LAST_LEVEL_IDX as li
Decide(asset, pct, now, ts, li) ==
    IF THRESHOLD_LEVELS # <<>>
    THEN LET idx == HighestLevel(pct, THRESHOLD_LEVELS)
             prev == Get(li, asset, -1)
         IN  [trigger |-> idx >= 0 /\ (idx > prev \/ now - Get(ts, asset, 0) >= ALERT_COOLDOWN),
              leveled |-> TRUE, idx |-> idx]
    ELSE [trigger |-> PctGE(pct, min_threshold_for(asset))
                      /\ now - Get(ts, asset, 0) >= ALERT_COOLDOWN,
          leveled |-> FALSE, idx |-> -1]

(***************************************************************************)
(* Scheduler: check_and_alert as a task that runs from one await to the    *)
(* next.  tasks is the list of the tasks in progress, oldest first.  pc    *)
(* names the await a task is suspended on:                                 *)
(*   "ext"  client.get of fetch_extended_tob for Head(assets)              *)
(*   "lig"  client.get of fetch_lighter_tob for Head(assets)               *)
(*   "send" send_message for Head(rows); now is the time.time() of that    *)
(*          iteration and idx its level index (-1 in single mode)          *)
(* all: the list the fetch loop iterates; assets: the part of it still to  *)
(* fetch; rows: the rows built so far ("ext", "lig") or, sorted, the rows  *)
(* still to process ("send").                                              *)
(***************************************************************************)
Task(pc, all, as, ext, rs, now, idx) ==
    [pc |-> pc, all |-> all, assets |-> as, ext |-> ext, rows |-> rs, now |-> now,
     idx |-> idx]
Row(asset, e) == [asset |-> asset, pct |-> e.pct, direction |-> e.direction]
Stage(pc, as, ext, rs) == [pc |-> pc, assets |-> as, ext |-> ext, rows |-> rs]

RECURSIVE FetchFrom(_, _), AfterExt(_, _, _), AfterLig(_, _, _, _)
\* main.py:217-218, 160, 96-100: up to the next await of the fetch loop
FetchFrom(as, rs) ==
    IF as = <<>> THEN Stage("eval", <<>>, None, rs)
    ELSE IF ExtAwaits(Head(as)) THEN Stage("ext", as, None, rs)
    ELSE AfterExt(as, rs, fetch_extended_tob(Head(as), Timeout))

\* main.py:161, 116-139
AfterExt(as, rs, ext) ==
    IF LigAwaits(Head(as)) THEN Stage("lig", as, ext, rs)
    ELSE AfterLig(as, rs, ext, fetch_lighter_tob(Head(as), Timeout))

\* main.py:162, 219-220
AfterLig(as, rs, ext, lig) ==
    FetchFrom(Tail(as),
              Append(rs, Row(Head(as), best_net_edge(VenueQuotes(ext, lig), FEES))))

\* main.py:221: rows.sort(key=pct, reverse=True), a stable descending sort
InsertRow(r, s) ==
    LET k == Cardinality({i \in 1..Len(s) : RatGE(s[i].pct, r.pct)})
    IN  SubSeq(s, 1, k) \o <<r>> \o SubSeq(s, k + 1, Len(s))

RECURSIVE SortRows(_)
SortRows(rs) ==
    IF rs = <<>> THEN <<>>
    ELSE InsertRow(rs[Len(rs)], SortRows(SubSeq(rs, 1, Len(rs) - 1)))

\* index of the first row of rs the policy fires for, 0 if none
FirstTrigger(rs, now, ts, li) ==
    LET hit == {i \in 1..Len(rs) : Decide(rs[i].asset, rs[i].pct, now, ts, li).trigger}
    IN  IF hit = {} THEN 0 ELSE CHOOSE i \in hit : \A k \in hit : i <= k

\* what one evaluation saw and decided
EvalRecord(r, now, ts, li) ==
    [asset |-> r.asset, pct |-> r.pct, direction |-> r.direction, now |-> now,
     last |-> Get(ts, r.asset, 0), prev |-> Get(li, r.asset, -1),
     fired |-> Decide(r.asset, r.pct, now, ts, li).trigger]

AssetSet(s) == {s[i] : i \in 1..Len(s)}
Remove(s, t) == SubSeq(s, 1, t - 1) \o SubSeq(s, t + 1, Len(s))
NoTick == [kind |-> "none", assets |-> {}, evaluated |-> {}, failed |-> {}]
NoSend == [asset |-> "none", now |-> 0, idx |-> -1, ok |-> TRUE]
NoFetch == [venue |-> "none", resp |-> Timeout, result |-> None]

\* main.py:223-256: the loop over the rows rs, up to its next send_message or its
\* end, with LAST_ALERT_TS = ts; t = 0 for a task that is not in the list yet
EvalLoop(t, all, rs, ts) ==
    LET k == FirstTrigger(rs, clock, ts, LAST_LEVEL_IDX)
        n == IF k = 0 THEN Len(rs) ELSE k
    IN  /\ evalLog' = [i \in 1..n |-> EvalRecord(rs[i], clock, ts, LAST_LEVEL_IDX)]
        /\ IF k = 0
           THEN /\ tasks' = IF t = 0 THEN tasks ELSE Remove(tasks, t)
                /\ lastTick' = [kind |-> "done", assets |-> AssetSet(all),
                                evaluated |-> AssetSet(all), failed |-> {}]
                /\ UNCHANGED <<LAST_LEVEL_IDX, alerts>>
           ELSE LET d == Decide(rs[k].asset, rs[k].pct, clock, ts, LAST_LEVEL_IDX)
                    task == Task("send", all, <<>>, None, SubSeq(rs, k, Len(rs)), clock, d.idx)
                IN  /\ tasks' = IF t = 0 THEN Append(tasks, task)
                                ELSE [tasks EXCEPT ![t] = task]
                    /\ LAST_LEVEL_IDX' = IF d.leveled
                                         THEN Put(LAST_LEVEL_IDX, rs[k].asset, d.idx)
                                         ELSE LAST_LEVEL_IDX
                    /\ alerts' = Append(alerts, [asset |-> rs[k].asset, at |-> clock,
                                                  idx |-> d.idx])
                    /\ lastTick' = NoTick

\* the task goes on from stage f of the fetch loop
Continue(t, all, f, ts) ==
    IF f.pc = "eval"
    THEN EvalLoop(t, all, SortRows(f.rows), ts)
    ELSE LET task == Task(f.pc, all, f.assets, f.ext, f.rows, 0, -1)
         IN  /\ tasks' = IF t = 0 THEN Append(tasks, task)
                         ELSE [tasks EXCEPT ![t] = task]
             /\ evalLog' = <<>>
             /\ lastTick' = NoTick
             /\ UNCHANGED <<LAST_LEVEL_IDX, alerts>>

cfgVars == <<PAUSED, ASSETS, THRESHOLD_PCT, THRESHOLD_PER_PAIR, THRESHOLD_LEVELS>>

\* main.py:375: the repeating job creates the task; main.py:213-218.
\* At most cap tasks are in progress.
TickStart(cap) ==
    /\ proc = "polling"
    /\ clock >= nextTick
    /\ Len(tasks) < cap
    /\ nextTick' = nextTick + POLL_SECONDS
    /\ IF PAUSED
       THEN /\ evalLog' = <<>>
            /\ lastTick' = NoTick
            /\ UNCHANGED <<tasks, LAST_LEVEL_IDX, alerts>>
       ELSE Continue(0, ASSETS, FetchFrom(ASSETS, <<>>), LAST_ALERT_TS)
    /\ lastFetch' = NoFetch
    /\ lastSend' = NoSend
    /\ reply' = "none"
    /\ UNCHANGED <<cfgVars, LAST_ALERT_TS, clock, calc, envVars>>

\* main.py:100-113: the Extended request of task t completes with resp
ExtResponse(t, resp) ==
    /\ t <= Len(tasks)
    /\ tasks[t].pc = "ext"
    /\ LET r == fetch_extended_tob(Head(tasks[t].assets), resp)
       IN  /\ lastFetch' = [venue |-> "ext", resp |-> resp, result |-> r]
           /\ IF r.kind = "raise"
              THEN /\ tasks' = Remove(tasks, t)
                   /\ lastTick' = [kind |-> "raised", assets |-> AssetSet(tasks[t].all),
                                   evaluated |-> {}, failed |-> {Head(tasks[t].assets)}]
                   /\ evalLog' = <<>>
                   /\ UNCHANGED <<LAST_LEVEL_IDX, alerts>>
              ELSE Continue(t, tasks[t].all,
                            AfterExt(tasks[t].assets, tasks[t].rows, r), LAST_ALERT_TS)
    /\ lastSend' = NoSend
    /\ reply' = "none"
    /\ UNCHANGED <<cfgVars, LAST_ALERT_TS, clock, nextTick, calc, envVars>>

\* main.py:139-157: the Lighter request of task t completes with resp
LigResponse(t, resp) ==
    /\ t <= Len(tasks)
    /\ tasks[t].pc = "lig"
    /\ LET r == fetch_lighter_tob(Head(tasks[t].assets), resp)
       IN  /\ lastFetch' = [venue |-> "lig", resp |-> resp, result |-> r]
           /\ Continue(t, tasks[t].all,
                       AfterLig(tasks[t].assets, tasks[t].rows, tasks[t].ext, r),
                       LAST_ALERT_TS)
    /\ lastSend' = NoSend
    /\ reply' = "none"
    /\ UNCHANGED <<cfgVars, LAST_ALERT_TS, clock, nextTick, calc, envVars>>

\* main.py:255-259: send_message of task t returns (ok) or raises (~ok)
SendDone(t, ok) ==
    /\ t <= Len(tasks)
    /\ tasks[t].pc = "send"
    /\ LET ts == IF ok
                 THEN Put(LAST_ALERT_TS, Head(tasks[t].rows).asset, tasks[t].now)
                 ELSE LAST_ALERT_TS
       IN  /\ LAST_ALERT_TS' = ts
           /\ EvalLoop(t, tasks[t].all, Tail(tasks[t].rows), ts)
    /\ lastFetch' = NoFetch
    /\ lastSend' = [asset |-> Head(tasks[t].rows).asset, now |-> tasks[t].now,
                     idx |-> tasks[t].idx, ok |-> ok]
    /\ reply' = "none"
    /\ UNCHANGED <<cfgVars, clock, nextTick, calc, envVars>>

\* the alerts of the last ALERT_COOLDOWN seconds before time now
Recent(as, now) == SelectSeq(as, LAMBDA x : x.at >= now - ALERT_COOLDOWN)

\* time passes until the repeating job is due again
Advance ==
    /\ clock < nextTick
    /\ nextTick <= MaxTime
    /\ clock' = nextTick
    /\ alerts' = Recent(alerts, nextTick)
    /\ evalLog' = <<>>
    /\ lastTick' = NoTick
    /\ lastFetch' = NoFetch
    /\ lastSend' = NoSend
    /\ reply' = "none"
    /\ UNCHANGED <<cfgVars, LAST_ALERT_TS, LAST_LEVEL_IDX, nextTick, tasks, calc, envVars>>

(***************************************************************************)
(* Telegram command handlers.  A numeric argument is a token that float()  *)
(* accepts (Num) or rejects (Bad); Blank is an empty item of a split.      *)
(***************************************************************************)
Num(v) == [tok |-> "num", val |-> v]
Bad == [tok |-> "bad", val |-> 0]
Blank == [tok |-> "blank", val |-> 0]

\* sorted(xs, key=float) on a short list, as list.sort does it: the initial run
\* (ascending, or strictly descending and then reversed) is extended by binary
\* insertion, every comparison being key(x) < key(y)
RECURSIVE RunEnd(_, _, _)
RunEnd(xs, i, desc) ==
    IF i > Len(xs) THEN Len(xs)
    ELSE IF FloatLT(xs[i], xs[i - 1]) = desc THEN RunEnd(xs, i + 1, desc)
    ELSE i - 1

Reverse(xs) == [i \in 1..Len(xs) |-> xs[Len(xs) + 1 - i]]

\* the 0-based insertion point of pivot in the sorted prefix s, searched in [l, r)
RECURSIVE BinSearch(_, _, _, _)
BinSearch(s, pivot, l, r) ==
    IF l >= r THEN l
    ELSE LET p == l + (r - l) \div 2
         IN  IF FloatLT(pivot, s[p + 1]) THEN BinSearch(s, pivot, l, p)
             ELSE BinSearch(s, pivot, p + 1, r)

InsertNum(v, s) ==
    LET k == BinSearch(s, v, 0, Len(s))
    IN  SubSeq(s, 1, k) \o <<v>> \o SubSeq(s, k + 1, Len(s))

RECURSIVE BinarySort(_, _)
BinarySort(s, rest) ==
    IF rest = <<>> THEN s ELSE BinarySort(InsertNum(Head(rest), s), Tail(rest))

SortNums(xs) ==
    IF Len(xs) <= 1 THEN xs
    ELSE LET desc == FloatLT(xs[2], xs[1])
             n == RunEnd(xs, 3, desc)
             run == IF desc THEN Reverse(SubSeq(xs, 1, n)) ELSE SubSeq(xs, 1, n)
         IN  BinarySort(run, SubSeq(xs, n + 1, Len(xs)))

\* str.upper() on the tickers the model types
Upper(s) ==
    CASE s = "btc" -> "BTC"
      [] s = "eth" -> "ETH"
      [] OTHER -> s

ResetObs ==
    evalLog' = <<>> /\ lastTick' = NoTick /\ lastFetch' = NoFetch /\ lastSend' = NoSend

\* main.py:333-336
cmd_pause ==
    /\ PAUSED' = TRUE
    /\ reply' = "paused"
    /\ ResetObs
    /\ UNCHANGED <<ASSETS, THRESHOLD_PCT, THRESHOLD_PER_PAIR, THRESHOLD_LEVELS,
                   LAST_ALERT_TS, LAST_LEVEL_IDX, clock, nextTick, tasks, alerts, calc, envVars>>

\* cmd_resume that starts over with an empty alert state
cmd_resume_ClearsState ==
    /\ PAUSED' = FALSE
    /\ LAST_ALERT_TS' = EmptyDict
    /\ LAST_LEVEL_IDX' = EmptyDict
    /\ reply' = "resumed"
    /\ ResetObs
    /\ UNCHANGED <<ASSETS, THRESHOLD_PCT, THRESHOLD_PER_PAIR, THRESHOLD_LEVELS,
                   clock, nextTick, tasks, alerts, calc, envVars>>

\* main.py:338-341
cmd_resume ==
    /\ PAUSED' = FALSE
    /\ reply' = "resumed"
    /\ ResetObs
    /\ UNCHANGED <<ASSETS, THRESHOLD_PCT, THRESHOLD_PER_PAIR, THRESHOLD_LEVELS,
                   LAST_ALERT_TS, LAST_LEVEL_IDX, clock, nextTick, tasks, alerts, calc, envVars>>

\* cmd_setlevels that clears LAST_LEVEL_IDX before it parses the argument
cmd_setlevels_ClearsFirst(raw) ==
    /\ LET items == SelectSeq(raw, LAMBDA x : x.tok # "blank")
           ok == raw # <<>> /\ \A i \in 1..Len(items) : items[i].tok = "num"
       IN  /\ THRESHOLD_LEVELS' = IF ok THEN SortNums([i \in 1..Len(items) |-> items[i].val])
                                  ELSE THRESHOLD_LEVELS
           /\ LAST_LEVEL_IDX' = IF raw # <<>> THEN EmptyDict ELSE LAST_LEVEL_IDX
           /\ reply' = IF ok THEN "levels_set" ELSE "usage_setlevels"
    /\ ResetObs
    /\ UNCHANGED <<PAUSED, ASSETS, THRESHOLD_PCT, THRESHOLD_PER_PAIR, LAST_ALERT_TS,
                   clock, nextTick, tasks, alerts, calc, envVars>>

\* main.py:321-331; raw is the argument text split on ",", <<>> when it is empty
cmd_setlevels(raw) ==
    /\ LET items == SelectSeq(raw, LAMBDA x : x.tok # "blank")
           ok == raw # <<>> /\ \A i \in 1..Len(items) : items[i].tok = "num"
       IN  IF ok
           THEN /\ THRESHOLD_LEVELS' = SortNums([i \in 1..Len(items) |-> items[i].val])
                /\ LAST_LEVEL_IDX' = EmptyDict
                /\ reply' = "levels_set"
           ELSE /\ UNCHANGED <<THRESHOLD_LEVELS, LAST_LEVEL_IDX>>
                /\ reply' = "usage_setlevels"
    /\ ResetObs
    /\ UNCHANGED <<PAUSED, ASSETS, THRESHOLD_PCT, THRESHOLD_PER_PAIR, LAST_ALERT_TS,
                   clock, nextTick, tasks, alerts, calc, envVars>>

\* cmd_setpairs that keeps the alert state of the assets of the new list only
cmd_setpairs_DropsState(args) ==
    /\ LET parts == [i \in 1..Len(args) |-> Upper(args[i])]
           keep(d) == [a \in DOMAIN d \cap {parts[i] : i \in 1..Len(parts)} |-> d[a]]
       IN  /\ ASSETS' = IF parts = <<>> THEN ASSETS ELSE parts
           /\ LAST_ALERT_TS' = IF parts = <<>> THEN LAST_ALERT_TS ELSE keep(LAST_ALERT_TS)
           /\ LAST_LEVEL_IDX' = IF parts = <<>> THEN LAST_LEVEL_IDX ELSE keep(LAST_LEVEL_IDX)
    /\ reply' = IF args = <<>> THEN "usage_setpairs" ELSE "pairs_set"
    /\ ResetObs
    /\ UNCHANGED <<PAUSED, THRESHOLD_PCT, THRESHOLD_PER_PAIR, THRESHOLD_LEVELS,
                   clock, nextTick, tasks, alerts, calc, envVars>>

\* main.py:284-294; args are the ticker words of the command
cmd_setpairs(args) ==
    /\ LET parts == [i \in 1..Len(args) |-> Upper(args[i])]
       IN  ASSETS' = IF parts = <<>> THEN ASSETS ELSE parts
    /\ reply' = IF args = <<>> THEN "usage_setpairs" ELSE "pairs_set"
    /\ ResetObs
    /\ UNCHANGED <<PAUSED, THRESHOLD_PCT, THRESHOLD_PER_PAIR, THRESHOLD_LEVELS,
                   LAST_ALERT_TS, LAST_LEVEL_IDX, clock, nextTick, tasks, alerts, calc, envVars>>

\* main.py:296-303
cmd_thresh(args) ==
    /\ THRESHOLD_PCT' = IF args # <<>> /\ args[1].tok = "num"
                        THEN args[1].val ELSE THRESHOLD_PCT
    /\ reply' = IF args # <<>> /\ args[1].tok = "num" THEN "thresh_set" ELSE "usage_thresh"
    /\ ResetObs
    /\ UNCHANGED <<PAUSED, ASSETS, THRESHOLD_PER_PAIR, THRESHOLD_LEVELS,
                   LAST_ALERT_TS, LAST_LEVEL_IDX, clock, nextTick, tasks, alerts, calc, envVars>>

\* main.py:305-313; asset is args[0], args the rest
cmd_threshpair(asset, args) ==
    /\ THRESHOLD_PER_PAIR' = IF args # <<>> /\ args[1].tok = "num"
                             THEN Put(THRESHOLD_PER_PAIR, Upper(asset), args[1].val)
                             ELSE THRESHOLD_PER_PAIR
    /\ reply' = IF args # <<>> /\ args[1].tok = "num" THEN "threshpair_set" ELSE "usage_threshpair"
    /\ ResetObs
    /\ UNCHANGED <<PAUSED, ASSETS, THRESHOLD_PCT, THRESHOLD_LEVELS,
                   LAST_ALERT_TS, LAST_LEVEL_IDX, clock, nextTick, tasks, alerts, calc, envVars>>

(***************************************************************************)
(* Inputs of the model                                                     *)
(***************************************************************************)
ExtResponses ==
    {Timeout, HttpError, Body(<<>>, <<>>),
     Body(<<Keyed(9990)>>, <<Keyed(10000)>>),
     Body(<<Positional(9990)>>, <<Positional(10000)>>),
     Body(<<Keyed(9990)>>, <<KeyedNoPrice>>)}

\* against an Extended ask of 10000 and 64 bps of costs, a Lighter bid of 10076
\* is a net edge of 0.12 percent and one of 10086 a net edge of 0.22 percent
LigResponses ==
    {Timeout, HttpError, Body(<<>>, <<>>),
     Body(<<Keyed(10076)>>, <<Keyed(10090)>>),
     Body(<<Positional(10086)>>, <<Positional(10090)>>),
     Body(<<KeyedNoPrice>>, <<Keyed(10090)>>)}

LevelArgs ==
    {<<>>, <<Num(20), Num(10)>>, <<Num(10), Bad>>, <<Blank, Blank>>,
     <<Num(20), Num(NaN), Num(10)>>}
PairArgs == {<<>>, <<"btc">>, <<"ETH">>}
ThreshArgs == {<<>>, <<Num(0)>>, <<Num(10)>>, <<Num(-50)>>, <<Bad>>}
InitLevels == {<<>>, <<10, 15, 20>>}

(***************************************************************************)
(* The bot                                                                 *)
(***************************************************************************)
NoCalc == [op |-> "none"]

InitBot(assets, levels) ==
    /\ PAUSED = FALSE
    /\ ASSETS = assets
    /\ THRESHOLD_PCT = DEFAULT_THRESHOLD_PCT
    /\ THRESHOLD_PER_PAIR = EmptyDict
    /\ THRESHOLD_LEVELS \in levels
    /\ LAST_ALERT_TS = EmptyDict
    /\ LAST_LEVEL_IDX = EmptyDict
    /\ clock = StartTime
    /\ nextTick = StartTime
    /\ tasks = <<>>
    /\ alerts = <<>>
    /\ evalLog = <<>>
    /\ lastTick = NoTick
    /\ lastFetch = NoFetch
    /\ lastSend = NoSend
    /\ BOT_TOKEN = TRUE
    /\ CHAT_ID = TRUE
    /\ proc = "polling"
    /\ reply = "none"

\* one tracked asset (PAIRS=BTC), ticks that may overlap, pause and resume
Init == InitBot(<<"BTC">>, InitLevels) /\ calc = NoCalc

Next ==
    \/ TickStart(MaxTasks)
    \/ \E t \in Tasks : \E resp \in ExtResponses : ExtResponse(t, resp)
    \/ \E t \in Tasks : \E resp \in LigResponses : LigResponse(t, resp)
    \/ \E t \in Tasks : \E ok \in BOOLEAN : SendDone(t, ok)
    \/ Advance
    \/ cmd_pause
    \/ cmd_resume

Spec == Init /\ [][Next]_vars

\* two tracked assets (PAIRS=BTC,ETH), one tick at a time
InitPairs == InitBot(<<"BTC", "ETH">>, InitLevels) /\ calc = NoCalc

NextPairs ==
    \/ TickStart(1)
    \/ \E resp \in ExtResponses : ExtResponse(1, resp)
    \/ \E resp \in LigResponses : LigResponse(1, resp)
    \/ \E ok \in BOOLEAN : SendDone(1, ok)
    \/ Advance

SpecPairs == InitPairs /\ [][NextPairs]_vars

\* one tracked asset, one tick at a time, /thresh and /threshpair.  Against the
\* Extended ask of 10000 a Lighter bid of 10025 is a gross spread of 0.25 percent.
ExtResponsesThresh == {Timeout, Body(<<Keyed(9990)>>, <<Keyed(10000)>>)}
LigResponsesThresh ==
    {Timeout, Body(<<Keyed(10025)>>, <<Keyed(10030)>>),
     Body(<<Keyed(10076)>>, <<Keyed(10090)>>)}

NextThresh ==
    \/ TickStart(1)
    \/ \E resp \in ExtResponsesThresh : ExtResponse(1, resp)
    \/ \E resp \in LigResponsesThresh : LigResponse(1, resp)
    \/ \E ok \in BOOLEAN : SendDone(1, ok)
    \/ Advance
    \/ \E args \in ThreshArgs : cmd_thresh(args)
    \/ \E args \in ThreshArgs : cmd_threshpair("btc", args)

SpecThresh == Init /\ [][NextThresh]_vars

\* one tracked asset at a time, one tick at a time; /setlevels in SpecCmd,
\* /setpairs in SpecSetPairs
ExtResponsesCmd == {Body(<<Keyed(9990)>>, <<Keyed(10000)>>)}
LigResponsesCmd ==
    {Body(<<Keyed(10076)>>, <<Keyed(10090)>>),
     Body(<<Positional(10086)>>, <<Positional(10090)>>)}

NextCmd ==
    \/ TickStart(1)
    \/ \E resp \in ExtResponsesCmd : ExtResponse(1, resp)
    \/ \E resp \in LigResponsesCmd : LigResponse(1, resp)
    \/ \E ok \in BOOLEAN : SendDone(1, ok)
    \/ Advance
    \/ \E raw \in LevelArgs : cmd_setlevels(raw)

SpecCmd == Init /\ [][NextCmd]_vars

NextSetPairs ==
    \/ TickStart(1)
    \/ \E resp \in ExtResponsesCmd : ExtResponse(1, resp)
    \/ \E resp \in LigResponsesCmd : LigResponse(1, resp)
    \/ \E ok \in BOOLEAN : SendDone(1, ok)
    \/ Advance
    \/ \E args \in PairArgs : cmd_setpairs(args)

SpecSetPairs == Init /\ [][NextSetPairs]_vars

(***************************************************************************)
(* Startup.  InitMain is the state after the module has been loaded and    *)
(* before main() runs; the settings are drawn from the environment.        *)
(***************************************************************************)
FIRST_RUN == 5
NoJob == 0

\* main that tests only BOT_TOKEN at main.py:356
main_TokenOnly ==
    /\ proc = "start"
    /\ IF ~BOT_TOKEN
       THEN proc' = "exit" /\ UNCHANGED nextTick
       ELSE proc' = "polling" /\ nextTick' = clock + FIRST_RUN
    /\ UNCHANGED <<cfgVars, LAST_ALERT_TS, LAST_LEVEL_IDX, clock, tasks, alerts,
                   evalLog, lastTick, lastFetch, lastSend, calc, BOT_TOKEN, CHAT_ID,
                   reply>>

\* main.py:355-379: SystemExit, or the repeating job is scheduled and polling starts
main ==
    /\ proc = "start"
    /\ IF ~BOT_TOKEN \/ ~CHAT_ID
       THEN proc' = "exit" /\ UNCHANGED nextTick
       ELSE proc' = "polling" /\ nextTick' = clock + FIRST_RUN
    /\ UNCHANGED <<cfgVars, LAST_ALERT_TS, LAST_LEVEL_IDX, clock, tasks, alerts,
                   evalLog, lastTick, lastFetch, lastSend, calc, BOT_TOKEN, CHAT_ID,
                   reply>>

InitMain ==
    /\ PAUSED = FALSE
    /\ ASSETS = <<"BTC">>
    /\ THRESHOLD_PCT = DEFAULT_THRESHOLD_PCT
    /\ THRESHOLD_PER_PAIR = EmptyDict
    /\ THRESHOLD_LEVELS \in InitLevels
    /\ LAST_ALERT_TS = EmptyDict
    /\ LAST_LEVEL_IDX = EmptyDict
    /\ clock = StartTime - FIRST_RUN
    /\ nextTick = NoJob
    /\ tasks = <<>>
    /\ alerts = <<>>
    /\ evalLog = <<>>
    /\ lastTick = NoTick
    /\ lastFetch = NoFetch
    /\ lastSend = NoSend
    /\ BOT_TOKEN \in BOOLEAN
    /\ CHAT_ID \in BOOLEAN
    /\ proc = "start"
    /\ reply = "none"
    /\ calc = NoCalc

NextMain ==
    \/ main
    \/ TickStart(1)
    \/ \E resp \in ExtResponses : ExtResponse(1, resp)
    \/ \E resp \in LigResponses : LigResponse(1, resp)
    \/ \E ok \in BOOLEAN : SendDone(1, ok)
    \/ Advance

\* main() runs; the job queue runs the job when it is due and time passes; every
\* request and every send completes, by an answer or by its timeout
SpecMain ==
    /\ InitMain
    /\ [][NextMain]_vars
    /\ WF_vars(main)
    /\ WF_vars(TickStart(1))
    /\ WF_vars(Advance)
    /\ WF_vars(\E resp \in ExtResponses : ExtResponse(1, resp))
    /\ WF_vars(\E resp \in LigResponses : LigResponse(1, resp))
    /\ WF_vars(\E ok \in BOOLEAN : SendDone(1, ok))

(***************************************************************************)
(* The edge calculator on its own: Init draws the quotes and the fee       *)
(* schedule, the actions apply best_net_edge and _roundtrip_bps.           *)
(***************************************************************************)
Prices == PriceLo..PriceHi
QuoteSet == {None} \cup {TopOfBook(b, a) : b \in Prices, a \in Prices}
FeeValues == {0, 22}
SlipValues == {0, 5}
FeeSchedules ==
    {Fees(eo, ec, lo, lc, sl) : eo \in FeeValues, ec \in FeeValues, lo \in FeeValues,
                                lc \in FeeValues, sl \in SlipValues}
Directions == {"EXT->LIG", "LIG->EXT"}
FeeSum(f, g) ==
    Fees(f.ext_open + g.ext_open, f.ext_close + g.ext_close, f.lig_open + g.lig_open,
         f.lig_close + g.lig_close, f.slip + g.slip)
SwapVenues(q) == VenueQuotes(q.lighter, q.extended)

CalcInputs ==
    {[op |-> "edge", done |-> FALSE, quotes |-> VenueQuotes(e, l), fee |-> f] :
        e \in QuoteSet, l \in QuoteSet, f \in FeeSchedules}
    \cup
    {[op |-> "cost", done |-> FALSE, fee |-> f, fee2 |-> g] :
        f \in FeeSchedules, g \in FeeSchedules}

InitEdge == InitBot(<<"BTC">>, {<<>>}) /\ calc \in CalcInputs

\* best_net_edge on the quotes and on the same quotes with the venues swapped
CalcEdge ==
    /\ calc.op = "edge" /\ ~calc.done
    /\ calc' = [op |-> "edge", done |-> TRUE, quotes |-> calc.quotes, fee |-> calc.fee,
                res |-> best_net_edge(calc.quotes, calc.fee),
                swapped |-> best_net_edge(SwapVenues(calc.quotes), calc.fee)]
    /\ UNCHANGED botVars

\* _roundtrip_bps in both directions on two fee schedules and on their sum
CalcCost ==
    /\ calc.op = "cost" /\ ~calc.done
    /\ calc' = [op |-> "cost", done |-> TRUE, fee |-> calc.fee, fee2 |-> calc.fee2,
                cost |-> [d \in Directions |-> roundtrip_bps(d, calc.fee)],
                cost2 |-> [d \in Directions |-> roundtrip_bps(d, calc.fee2)],
                costSum |-> [d \in Directions |->
                                roundtrip_bps(d, FeeSum(calc.fee, calc.fee2))]]
    /\ UNCHANGED botVars

NextEdge == CalcEdge \/ CalcCost

SpecEdge == InitEdge /\ [][NextEdge]_vars

(***************************************************************************)
(* Claims                                                                  *)
(***************************************************************************)
SameAssetSingle(x, y) == x.asset = y.asset /\ x.idx = -1 /\ y.idx = -1

\* C1: in single-threshold mode any two alerts fired for one asset are at least
\* ALERT_COOLDOWN apart, whatever the ticks, commands and notifier outcomes.
C1_CooldownRespected ==
    \A i \in 1..Len(alerts) : \A j \in 1..Len(alerts) :
        (i < j /\ SameAssetSingle(alerts[i], alerts[j]))
            => alerts[j].at - alerts[i].at >= ALERT_COOLDOWN

\* the highest 0-based index of THRESHOLD_LEVELS that pct reaches, -1 if none
CrossedIdx(pct) ==
    LET L == THRESHOLD_LEVELS
    IN  IF \E i \in 1..Len(L) : pct.n * 100 >= L[i] * pct.d
        THEN (CHOOSE i \in 1..Len(L) :
                 /\ pct.n * 100 >= L[i] * pct.d
                 /\ \A k \in (i + 1)..Len(L) : pct.n * 100 < L[k] * pct.d) - 1
        ELSE -1

\* C2: in leveled mode an evaluation fires iff the highest crossed index idx is
\* >= 0 and (idx > lastLevelIndex or now - lastAlertAt >= cooldown), and a fire
\* is an alert at index idx that sets lastLevelIndex to idx.
C2_LeveledFires ==
    THRESHOLD_LEVELS # <<>> =>
        \A n \in 1..Len(evalLog) :
            LET e == evalLog[n]
                idx == CrossedIdx(e.pct)
            IN  /\ e.fired <=> (idx >= 0 /\ (idx > e.prev
                                              \/ e.now - e.last >= ALERT_COOLDOWN))
                /\ e.fired => /\ alerts # <<>>
                              /\ alerts[Len(alerts)] =
                                     [asset |-> e.asset, at |-> e.now, idx |-> idx]
                              /\ Get(LAST_LEVEL_IDX, e.asset, -1) = idx

\* levels [0.10, 0.15, 0.20]: an alert at index 0, a later one at index 2, and
\* a further evaluation at index 2 inside the cooldown of that one that does not fire
C2_Witness ==
    /\ THRESHOLD_LEVELS = <<10, 15, 20>>
    /\ \E i \in 1..Len(alerts) : \E j \in 1..Len(alerts) : \E n \in 1..Len(evalLog) :
          /\ i < j
          /\ alerts[i].asset = alerts[j].asset /\ evalLog[n].asset = alerts[j].asset
          /\ alerts[i].idx = 0 /\ alerts[j].idx = 2
          /\ CrossedIdx(evalLog[n].pct) = 2 /\ evalLog[n].prev = 2
          /\ evalLog[n].last = alerts[j].at
          /\ evalLog[n].now - evalLog[n].last < ALERT_COOLDOWN
          /\ ~evalLog[n].fired

\* C3: when a fired alert's send_message has completed, by returning or by
\* raising, LAST_ALERT_TS of the asset is the now of the firing decision and, in
\* leveled mode, LAST_LEVEL_IDX of the asset is the level index that fired.
C3_FireRecordsState ==
    lastSend.asset # "none" =>
        /\ Get(LAST_ALERT_TS, lastSend.asset, 0) = lastSend.now
        /\ lastSend.idx >= 0 => Get(LAST_LEVEL_IDX, lastSend.asset, -1) = lastSend.idx

\* C4: a step taken while PAUSED is set fires no alert and changes neither
\* LAST_ALERT_TS nor LAST_LEVEL_IDX, also when the tick was already in progress
\* when /pause was processed.
C4_PausedFreezes ==
    [][PAUSED => /\ \A i \in 1..Len(evalLog') : ~evalLog'[i].fired
                 /\ LAST_ALERT_TS' = LAST_ALERT_TS
                 /\ LAST_LEVEL_IDX' = LAST_LEVEL_IDX]_vars

\* C5: when a tick ends, every tracked asset other than one whose fetch failed
\* has been evaluated by the alert policy in that tick.
C5_FailureIsolated ==
    lastTick.kind # "none" =>
        \A a \in lastTick.assets \ lastTick.failed : a \in lastTick.evaluated

FirstLevelsOf(resp) == {resp.bid[1], resp.ask[1]}
Malformed(resp) ==
    /\ resp.kind = "ok" /\ resp.bid # <<>> /\ resp.ask # <<>>
    /\ \E l \in FirstLevelsOf(resp) : l.shape = "dict" /\ ~l.price.has
FailedResponse(resp) == resp.kind \in {"timeout", "status"} \/ Malformed(resp)

\* C6: a venue fetch never raises to its caller, and a timeout, a non-success
\* status or a malformed payload is returned as None.
C6_FetchNeverRaises ==
    lastFetch.venue # "none" =>
        /\ lastFetch.result.kind # "raise"
        /\ FailedResponse(lastFetch.resp) => lastFetch.result = None

(***************************************************************************)
(* Claims about the edge calculator, written from the formulas of the      *)
(* claims: with cost c = openA + openB + closeA + closeB + 4 * slippage    *)
(* bps, the net of selling at sell after buying at buy, in percent, is     *)
(* ((sell - buy) * 10000 - c * buy) / (buy * 100).                         *)
(***************************************************************************)
EdgeDone == calc.op = "edge" /\ calc.done
BothPresent == calc.quotes.extended.kind = "tob" /\ calc.quotes.lighter.kind = "tob"
ClaimCost(f) == f.ext_open + f.lig_open + f.ext_close + f.lig_close + 4 * f.slip
\* numerator of the net percent over the denominator buy * 100
ClaimNum(sell, buy, f) == (sell - buy) * 10000 - ClaimCost(f) * buy
NumAtoB == ClaimNum(calc.quotes.lighter.bid, calc.quotes.extended.ask, calc.fee)
NumBtoA == ClaimNum(calc.quotes.extended.bid, calc.quotes.lighter.ask, calc.fee)
DenAtoB == calc.quotes.extended.ask * 100
DenBtoA == calc.quotes.lighter.ask * 100
\* netAtoB >= netBtoA, netAtoB = netBtoA
AtoBWins == NumAtoB * DenBtoA >= NumBtoA * DenAtoB
NetsTie == NumAtoB * DenBtoA = NumBtoA * DenAtoB
IsPct(r, num, den) == r.n * den = num * r.d
Ordered(q) == q.bid <= q.ask
Flip(d) == IF d = "EXT->LIG" THEN "LIG->EXT" ELSE IF d = "LIG->EXT" THEN "EXT->LIG" ELSE d

\* C7: with both quotes present best_net_edge returns the direction of
\* max(netAtoB, netBtoA) and that net times 100, EXT->LIG when the two are equal.
C7_BestNetEdge ==
    (EdgeDone /\ BothPresent) =>
        IF AtoBWins
        THEN calc.res.direction = "EXT->LIG" /\ IsPct(calc.res.pct, NumAtoB, DenAtoB)
        ELSE calc.res.direction = "LIG->EXT" /\ IsPct(calc.res.pct, NumBtoA, DenBtoA)

\* two different quotes with equal nets, answered EXT->LIG
C7_Witness ==
    /\ EdgeDone /\ BothPresent /\ NetsTie
    /\ calc.quotes.extended # calc.quotes.lighter
    /\ calc.res.direction = "EXT->LIG"

\* C8 as stated: for quotes with bid <= ask on both venues, swapping the venues
\* swaps the direction label and leaves the net edge unchanged.
C8_SwapSwapsLabel ==
    (EdgeDone /\ BothPresent /\ Ordered(calc.quotes.extended) /\ Ordered(calc.quotes.lighter)) =>
        /\ calc.swapped.direction = Flip(calc.res.direction)
        /\ RatEQ(calc.swapped.pct, calc.res.pct)

\* C8 amended: swapping the venues leaves the net edge unchanged; it swaps the
\* direction label when the two nets differ, and both orders answer EXT->LIG
\* when the two nets are equal.
C8_SwapKeepsEdge ==
    (EdgeDone /\ BothPresent /\ Ordered(calc.quotes.extended) /\ Ordered(calc.quotes.lighter)) =>
        /\ RatEQ(calc.swapped.pct, calc.res.pct)
        /\ IsPct(calc.swapped.pct, IF AtoBWins THEN NumAtoB ELSE NumBtoA,
                                   IF AtoBWins THEN DenAtoB ELSE DenBtoA)
        /\ ~NetsTie => calc.swapped.direction = Flip(calc.res.direction)
        /\ NetsTie => calc.swapped.direction = "EXT->LIG" /\ calc.res.direction = "EXT->LIG"

\* a swap that swaps the label (LIG->EXT before, EXT->LIG after) under venue
\* fees that differ
C8_Witness ==
    /\ EdgeDone /\ BothPresent
    /\ Ordered(calc.quotes.extended) /\ Ordered(calc.quotes.lighter)
    /\ calc.fee.ext_open # calc.fee.lig_open
    /\ calc.res.direction = "LIG->EXT" /\ calc.swapped.direction = "EXT->LIG"

CostDone == calc.op = "cost" /\ calc.done

\* C9: _roundtrip_bps is openA + openB + closeA + closeB + 4 * slippage, the same
\* in both directions, and additive in the fee schedule.
C9_RoundTripCost ==
    CostDone =>
        /\ \A d \in Directions : calc.cost[d] = ClaimCost(calc.fee)
        /\ calc.cost["EXT->LIG"] = calc.cost["LIG->EXT"]
        /\ \A d \in Directions : calc.costSum[d] = calc.cost[d] + calc.cost2[d]

\* venue fees that differ, with slippage: 22 + 0 + 22 + 0 + 4 * 5 = 64 bps
C9_Witness ==
    /\ CostDone
    /\ calc.fee = Fees(22, 22, 0, 0, 5)
    /\ calc.fee2 # calc.fee
    /\ calc.cost["LIG->EXT"] = 64

\* C10: with either quote absent best_net_edge returns net edge 0 and N/A.
C10_MissingQuote ==
    (EdgeDone /\ ~BothPresent) =>
        /\ calc.res.direction = "N/A"
        /\ calc.res.pct.n = 0

\* Extended quoted, Lighter absent
C10_Witness ==
    /\ EdgeDone
    /\ calc.quotes.extended.kind = "tob" /\ calc.quotes.lighter.kind = "none"
    /\ calc.res.direction = "N/A"

(***************************************************************************)
(* Claims about the policy under live reconfiguration                      *)
(***************************************************************************)
\* the tick has just evaluated the asset on Extended ask 100.00 and Lighter bid
\* 100.25 (prices in hundredths)
C11_Scenario ==
    /\ lastFetch.venue = "lig"
    /\ lastFetch.result = TopOfBook(10025, 10030)
    /\ Len(evalLog) = 1
    /\ evalLog[1].direction = "EXT->LIG"

\* every level, or the asset's single threshold, is positive
PositiveThresholds(asset) ==
    IF THRESHOLD_LEVELS # <<>>
    THEN \A i \in 1..Len(THRESHOLD_LEVELS) : THRESHOLD_LEVELS[i] > 0
    ELSE IF asset \in DOMAIN THRESHOLD_PER_PAIR
         THEN THRESHOLD_PER_PAIR[asset] > 0
         ELSE THRESHOLD_PCT > 0

\* C11: with ask 100.00 on Extended, bid 100.25 on Lighter, fees 22/22/0/0 bps
\* and 5 bps of slippage per leg the cost is 64 bps and the net edge -0.39
\* percent, and no alert fires under any positive threshold or level list.
C11_NoAlertBelowCost ==
    C11_Scenario =>
        /\ roundtrip_bps("EXT->LIG", FEES) = 64
        /\ evalLog[1].pct.n * 100 = -39 * evalLog[1].pct.d
        /\ PositiveThresholds(evalLog[1].asset) =>
               /\ ~evalLog[1].fired
               /\ tasks = <<>>
               /\ lastTick.kind = "done"

\* the scenario evaluated under the positive default threshold of 0.10 percent
C11_Witness ==
    /\ C11_Scenario
    /\ THRESHOLD_LEVELS = <<>> /\ THRESHOLD_PCT = 10 /\ THRESHOLD_PER_PAIR = EmptyDict
    /\ ~evalLog[1].fired

\* C12: a /pause or /resume step, whenever it is taken, leaves LAST_ALERT_TS and
\* LAST_LEVEL_IDX of every asset as they were.
C12_PauseKeepsAlertState ==
    [][(PAUSED' # PAUSED \/ reply' \in {"paused", "resumed"})
          => (LAST_ALERT_TS' = LAST_ALERT_TS /\ LAST_LEVEL_IDX' = LAST_LEVEL_IDX)]_vars

\* resumed between ticks with a cooldown and a level recorded before the pause
\* still in force
C12_Witness ==
    /\ reply = "resumed" /\ ~PAUSED /\ tasks = <<>>
    /\ "BTC" \in DOMAIN LAST_ALERT_TS /\ "BTC" \in DOMAIN LAST_LEVEL_IDX
    /\ clock - LAST_ALERT_TS["BTC"] < ALERT_COOLDOWN

\* C13: an accepted /setlevels leaves every asset without a LAST_ALERT_TS entry
\* and without a LAST_LEVEL_IDX entry (lastLevelIndex = -1).
C13_SetLevelsClearsAll ==
    [][(THRESHOLD_LEVELS' # THRESHOLD_LEVELS \/ reply' = "levels_set")
          => (LAST_ALERT_TS' = EmptyDict /\ LAST_LEVEL_IDX' = EmptyDict)]_vars

\* a tick has just ended by a raising fetch, or a send_message has just failed
TickFailed == lastTick.kind = "raised" \/ (lastSend.asset # "none" /\ ~lastSend.ok)

C16_UnavailableSkipped ==
    \A n \in 1..Len(evalLog) : evalLog[n].direction = "N/A" => ~evalLog[n].fired

FloatLE(a, b) == a # NaN /\ b # NaN /\ a <= b

\* C18: every entry of LAST_LEVEL_IDX is an index into the current
\* THRESHOLD_LEVELS, and THRESHOLD_LEVELS is ascending.
C18_LevelIndexValid ==
    /\ \A a \in DOMAIN LAST_LEVEL_IDX :
          0 <= LAST_LEVEL_IDX[a] /\ LAST_LEVEL_IDX[a] < Len(THRESHOLD_LEVELS)
    /\ \A i \in 1..Len(THRESHOLD_LEVELS) : \A j \in 1..Len(THRESHOLD_LEVELS) :
          i < j => FloatLE(THRESHOLD_LEVELS[i], THRESHOLD_LEVELS[j])

\* C19: a /setpairs step changes neither LAST_ALERT_TS nor LAST_LEVEL_IDX, no
\* other step changes ASSETS, and a /setpairs without asset names leaves ASSETS
\* unchanged.
C19_SetPairsOnlyList ==
    [][/\ (ASSETS' # ASSETS \/ reply' \in {"pairs_set", "usage_setpairs"})
            => (LAST_ALERT_TS' = LAST_ALERT_TS /\ LAST_LEVEL_IDX' = LAST_LEVEL_IDX)
       /\ ASSETS' # ASSETS => reply' = "pairs_set"
       /\ reply' = "usage_setpairs" => ASSETS' = ASSETS]_vars

\* BTC was alerted, removed from tracking while ETH was tracked and alerted,
\* and has just been re-added: its record is still there and its cooldown runs
C19_Witness ==
    /\ reply = "pairs_set"
    /\ ASSETS = <<"BTC">>
    /\ DOMAIN LAST_ALERT_TS = {"BTC", "ETH"}
    /\ LAST_ALERT_TS["BTC"] = StartTime
    /\ LAST_ALERT_TS["ETH"] = StartTime + POLL_SECONDS
    /\ clock - LAST_ALERT_TS["BTC"] < ALERT_COOLDOWN

\* C20: a /setlevels that is answered with the usage text (empty argument, or a
\* value that float() rejects) changes neither THRESHOLD_LEVELS nor
\* LAST_LEVEL_IDX nor LAST_ALERT_TS; THRESHOLD_LEVELS changes only in an accepted
\* /setlevels, which empties LAST_LEVEL_IDX in the same step, and no other step
\* removes an entry of LAST_LEVEL_IDX.
C20_BadSetLevelsIgnored ==
    [][/\ reply' = "usage_setlevels"
            => UNCHANGED <<THRESHOLD_LEVELS, LAST_LEVEL_IDX, LAST_ALERT_TS>>
       /\ THRESHOLD_LEVELS' # THRESHOLD_LEVELS => reply' = "levels_set"
       /\ reply' = "levels_set" => LAST_LEVEL_IDX' = EmptyDict
       /\ (\E a \in DOMAIN LAST_LEVEL_IDX : a \notin DOMAIN LAST_LEVEL_IDX')
            => reply' = "levels_set"]_vars

\* a rejected /setlevels while a level index and a cooldown are recorded
C20_Witness ==
    /\ reply = "usage_setlevels"
    /\ THRESHOLD_LEVELS = <<10, 15, 20>>
    /\ "BTC" \in DOMAIN LAST_LEVEL_IDX /\ LAST_LEVEL_IDX["BTC"] = 2
    /\ "BTC" \in DOMAIN LAST_ALERT_TS

====
